---- MODULE Spec2Model ----
(***************************************************************************)
(* CRL health check (src/crl_health_check.py): one run of validate_crl     *)
(* fetches a CRL, classifies it against the clock and reports the result   *)
(* to three sinks: the log file, the Prometheus text file and the Windows  *)
(* event log.  The files, the event log, the registry and the clock are    *)
(* shared state; every run of the script is a process with its own locals. *)
(*                                                                         *)
(* Strings that the code takes apart (the CRL file name) are sequences of  *)
(* one-character strings.  Points in time are integer milliseconds since   *)
(* the epoch.                                                              *)
(***************************************************************************)
EXTENDS Integers, Sequences, FiniteSets, TLC

VARIABLES
    clock,      \* what datetime.now() returns
    crl_arg,    \* the CRL file name the script is run with
    cdp,        \* the CRL the distribution point serves
    log,        \* C:/PKI/crl_monitoring.txt and its directory
    prom,       \* .../textfile_input/crl_status.txt and its directory
    events,     \* the Application event log: the records ReportEvent added
    registry,   \* TRUE when the event source is in the registry
    loc,        \* loc[p]: the locals and the position of run p
    serialized  \* TRUE when the job runner never overlaps two runs

vars == <<clock, crl_arg, cdp, log, prom, events, registry, loc, serialized>>

----------------------------------------------------------------------------
(* Bounds *)

MaxSlot == 2
MaxNameLen == 5

----------------------------------------------------------------------------
(* Time *)

MsPerDay == 24 * 60 * 60 * 1000

Day(d) == d * MsPerDay

\* timedelta(days=3)
OverlapFallbackDays == 3

\* The instants the model draws dates and clock readings from: one every
\* three days, so that the fallback overlap date of a CRL is an instant too.
Slot(k) == Day(k * OverlapFallbackDays)

Instants == {Slot(k) : k \in 0 .. MaxSlot}

\* int(date.timestamp()): seconds since the epoch, truncated toward zero
datetime_to_unix(date) ==
    IF date >= 0 THEN date \div 1000 ELSE -((-date) \div 1000)

----------------------------------------------------------------------------
(* Strings *)

Chars == {"y", ".", "c", "r", "l"}

DotCrl == <<".", "c", "r", "l">>

StartsWith(s, t) ==
    /\ Len(s) >= Len(t)
    /\ SubSeq(s, 1, Len(t)) = t

Drop(s, n) == SubSeq(s, n + 1, Len(s))

\* str.replace(old, new): every non-overlapping occurrence, left to right
RECURSIVE str_replace(_, _, _)
str_replace(s, old, new) ==
    IF s = <<>> THEN <<>>
    ELSE IF StartsWith(s, old)
         THEN new \o str_replace(Drop(s, Len(old)), old, new)
         ELSE <<Head(s)>> \o str_replace(Tail(s), old, new)

\* every name of 1 .. MaxNameLen characters
AllNames == UNION {[1 .. n -> Chars] : n \in 1 .. MaxNameLen}

\* the label of the metrics: crl_file.replace(".crl", "")
SanitizedName(crl_file) == str_replace(crl_file, DotCrl, <<>>)

----------------------------------------------------------------------------
(* What the script is run with, and what the distribution point answers *)

Procs == {"A", "B"}

cdp_server == <<"c.pki.goog">>

path_type == <<"we2">>

CrlNames == { <<"y", ".", "c", "r", "l">>, <<"y">> }

HttpStatuses == {200, 404}

\* f"https://{cdp_server}/{path_type}/{crl_name}"
full_path(server, ptype, crl_name) ==
    <<"https://">> \o server \o <<"/">> \o ptype \o <<"/">> \o crl_name

\* A decoded CRL: last_update_utc, next_update_utc and the Next Publish
\* extension (1.3.6.1.4.1.311.21.4) when the CRL carries it.
CRLs ==
    [ der_ok : {TRUE},
      last_update : {Slot(0)},
      next_update : Instants,
      has_next_publish : {TRUE},
      next_publish : Instants ]
    \cup
    [ der_ok : {TRUE},
      last_update : {Slot(0)},
      next_update : Instants,
      has_next_publish : {FALSE},
      next_publish : {0} ]

\* bytes that x509.load_der_x509_crl rejects
MalformedCRL ==
    [ der_ok |-> FALSE, last_update |-> 0, next_update |-> 0,
      has_next_publish |-> FALSE, next_publish |-> 0 ]

----------------------------------------------------------------------------
(* Files *)

\* a path whose directory (dir) and file (file) may or may not exist;
\* text is what the file holds, made tells that os.makedirs made the directory
FileStates ==
    { [dir |-> FALSE, file |-> FALSE, text |-> <<>>, made |-> FALSE],
      [dir |-> TRUE, file |-> FALSE, text |-> <<>>, made |-> FALSE],
      [dir |-> TRUE, file |-> TRUE, text |-> <<>>, made |-> FALSE] }

\* os.makedirs(os.path.dirname(path))
makedirs(fs) == [fs EXCEPT !.dir = TRUE, !.made = TRUE]

\* variant: the file opened with 'w', which truncates it
open_a_bad(fs, data) == [fs EXCEPT !.file = TRUE, !.text = data]

\* open(path, 'a') and write(data), the with block of write_log
open_a(fs, data) == [fs EXCEPT !.file = TRUE, !.text = @ \o data]

\* variant: the file opened with 'a+', which keeps its content
open_w_bad(fs) == [fs EXCEPT !.file = TRUE]

\* open(path, 'w+') and write(""), the with block of clear_PROM_log
open_w(fs) == [fs EXCEPT !.file = TRUE, !.text = <<>>]

\* The result of a call: the file afterwards and the exception that left it
Ret(fs, exc) == [fs |-> fs, exc |-> exc]

----------------------------------------------------------------------------
(* The sinks *)

LogBlock(http_path, log_content, status_code, now) ==
    [ http_path |-> http_path, log_content |-> log_content,
      status_code |-> status_code, time |-> now ]

\* write_log: ioerr is an OSError of open or write that is not FileNotFoundError
write_log(fs, http_path, log_content, status_code, now, ioerr) ==
    LET log_format == <<LogBlock(http_path, log_content, status_code, now)>>
    IN  IF ioerr THEN Ret(fs, "OSError")
        ELSE IF fs.dir THEN Ret(open_a(fs, log_format), "none")
        ELSE Ret(open_a(makedirs(fs), log_format), "none")

\* variant: a clear_PROM_log that creates the file and leaves its content
clear_PROM_log_bad(fs, ioerr) ==
    IF ioerr THEN Ret(fs, "OSError")
    ELSE IF fs.dir THEN Ret([fs EXCEPT !.file = TRUE], "none")
    ELSE Ret(makedirs(fs), "none")

\* clear_PROM_log: the handler of FileNotFoundError makes the directory and
\* returns; it does not open the file again
clear_PROM_log(fs, ioerr) ==
    IF ioerr THEN Ret(fs, "OSError")
    ELSE IF fs.dir THEN Ret(open_w(fs), "none")
    ELSE Ret(makedirs(fs), "none")

Comment(txt) == [metric |-> txt, crl_name |-> <<>>, value |-> 0]

Gauge(metric, crl_name, value) ==
    [metric |-> metric, crl_name |-> crl_name, value |-> value]

GaugeNames ==
    {"crl_status", "crl_creation_date", "crl_overlapping_date", "crl_expiration_date"}

prom_log_format(crl_file, creation_ts, overlapping_ts, expiration_ts, status_code) ==
    LET name == SanitizedName(crl_file)
    IN  << Comment(""),
           Comment("# HELP crl_status Provides a viewpoint about the CRL"),
           Comment("# TYPE crl_status gauge"),
           Gauge("crl_status", name, status_code),
           Gauge("crl_creation_date", name, creation_ts),
           Gauge("crl_overlapping_date", name, overlapping_ts),
           Gauge("crl_expiration_date", name, expiration_ts) >>

write_PROM_log(fs, crl_file, creation_ts, overlapping_ts, expiration_ts, status_code, ioerr) ==
    LET data == prom_log_format(crl_file, creation_ts, overlapping_ts,
                                expiration_ts, status_code)
    IN  IF ioerr THEN Ret(fs, "OSError")
        ELSE IF fs.dir THEN Ret(open_a(fs, data), "none")
        ELSE Ret(open_a(makedirs(fs), data), "none")

\* the severity of an event, lines 42-53
event_type(status_code) ==
    IF status_code \in {1, 5} THEN "EVENTLOG_INFORMATION_TYPE"
    ELSE IF status_code = 2 THEN "EVENTLOG_WARNING_TYPE"
    ELSE IF status_code \in {3, 4, 6, 10} THEN "EVENTLOG_ERROR_TYPE"
    ELSE "EVENTLOG_ERROR_TYPE"

Event(log_content, status_code) ==
    [ appName |-> "CRL Monitoring Script", eventID |-> status_code,
      eventType |-> event_type(status_code), strings |-> <<log_content>> ]

----------------------------------------------------------------------------
(* The classification of validate_crl *)

Msg(text, crl_name, date) == [text |-> text, crl_name |-> crl_name, date |-> date]

NoMsg == Msg("", <<>>, 0)

overlapping_delta_of(crl) ==
    IF crl.has_next_publish THEN crl.next_publish
    ELSE crl.next_update - Day(OverlapFallbackDays)

\* variant: the first test strict
crl_status_bad(current_date, overlapping_delta, expiration_date) ==
    IF current_date < overlapping_delta THEN 1
    ELSE IF current_date > overlapping_delta /\ current_date <= expiration_date THEN 2
    ELSE IF current_date > expiration_date THEN 3
    ELSE 10

\* variant: the third test turned round
crl_status_flip(current_date, overlapping_delta, expiration_date) ==
    IF current_date <= overlapping_delta THEN 1
    ELSE IF current_date > overlapping_delta /\ current_date <= expiration_date THEN 2
    ELSE IF current_date < expiration_date THEN 3
    ELSE 10

\* the if/elif chain of lines 188-216
crl_status_of(current_date, overlapping_delta, expiration_date) ==
    IF current_date <= overlapping_delta THEN 1
    ELSE IF current_date > overlapping_delta /\ current_date <= expiration_date THEN 2
    ELSE IF current_date > expiration_date THEN 3
    ELSE 10

log_message_of(status, crl_name, overlapping_delta, expiration_date) ==
    IF status = 1 THEN Msg("is VALID, and is fresh until", crl_name, overlapping_delta)
    ELSE IF status = 2
         THEN Msg("entered OVERLAPPING STATE, and will expire at", crl_name, expiration_date)
         ELSE Msg("is EXPIRED since", crl_name, expiration_date)

UnreachableMsg == Msg("CRL is UNREACHABLE.", <<>>, 0)

----------------------------------------------------------------------------
(* The locals of a run *)

IdleLoc ==
    [ pc |-> "idle", crl_name |-> <<>>, http |-> 0, crl_status |-> 0,
      log_message |-> NoMsg, creation_date |-> 0, overlapping_delta |-> 0,
      expiration_date |-> 0, current_date |-> 0,
      bound |-> {}, exc |-> "none", calls |-> <<>> ]

Raise(l, exc) == [l EXCEPT !.pc = "exit", !.exc = exc]

Called(l, f) == [l EXCEPT !.calls = Append(@, f)]

----------------------------------------------------------------------------
(* Initial states *)

InitCommon ==
    /\ clock = Slot(0)
    /\ crl_arg \in CrlNames
    /\ cdp \in CRLs \cup {MalformedCRL}
    /\ log \in FileStates
    /\ prom \in FileStates
    /\ events = <<>>
    /\ registry = FALSE
    /\ loc = [p \in Procs |-> IdleLoc]

Init == InitCommon /\ serialized = TRUE

\* The job runner may or may not overlap runs; the sinks' files exist and
\* the CRL carries no Next Publish extension.
InitSched ==
    /\ InitCommon
    /\ cdp.der_ok
    /\ ~cdp.has_next_publish
    /\ log.file
    /\ prom.file
    /\ serialized \in BOOLEAN

\* One run with any file name: the sinks' files exist and the CRL is fixed.
InitName ==
    /\ clock = Slot(0)
    /\ crl_arg \in AllNames
    /\ cdp = [ der_ok |-> TRUE, last_update |-> Slot(0), next_update |-> Slot(1),
               has_next_publish |-> FALSE, next_publish |-> 0 ]
    /\ log = [dir |-> TRUE, file |-> TRUE, text |-> <<>>, made |-> FALSE]
    /\ prom = [dir |-> TRUE, file |-> TRUE, text |-> <<>>, made |-> FALSE]
    /\ events = <<>>
    /\ registry = FALSE
    /\ loc = [p \in Procs |-> IdleLoc]
    /\ serialized = TRUE

----------------------------------------------------------------------------
(* Actions *)

\* the wall clock advances
Tick ==
    /\ clock < Slot(MaxSlot)
    /\ clock' = clock + Slot(1)
    /\ UNCHANGED <<crl_arg, cdp, log, prom, events, registry, loc, serialized>>

\* validate_crl is entered and the CRL is requested (lines 158-159)
Start(p) ==
    /\ loc[p].pc = "idle"
    /\ serialized => \A q \in Procs : loc[q].pc \in {"idle", "done"}
    /\ \E status \in HttpStatuses :
          loc' = [loc EXCEPT ![p] =
                    [IdleLoc EXCEPT !.pc = "fetched", !.crl_name = crl_arg,
                                    !.http = status]]
    /\ UNCHANGED <<clock, crl_arg, cdp, log, prom, events, registry, serialized>>

\* the request did not return 200 (lines 162-168)
Unreachable(p) ==
    /\ loc[p].pc = "fetched"
    /\ loc[p].http # 200
    /\ \E ioerr \in BOOLEAN :
          LET l == Called([loc[p] EXCEPT !.crl_status = 4,
                                         !.log_message = UnreachableMsg,
                                         !.bound = @ \cup {"crl_status", "log_message"}],
                          "write_log")
              r == write_log(log, full_path(cdp_server, path_type, l.crl_name),
                             Msg("CRL is unreachable", <<>>, 0), l.http, clock, ioerr)
          IN  /\ log' = r.fs
              /\ loc' = [loc EXCEPT ![p] =
                           IF r.exc = "none" THEN [l EXCEPT !.pc = "write_log"]
                           ELSE Raise(l, r.exc)]
    /\ UNCHANGED <<clock, crl_arg, cdp, prom, events, registry, serialized>>

\* the request returned 200: the CRL is decoded and classified (lines 170-216)
Classify(p) ==
    /\ loc[p].pc = "fetched"
    /\ loc[p].http = 200
    /\ loc' = [loc EXCEPT ![p] =
          IF ~cdp.der_ok THEN Raise(@, "ValueError")
          ELSE LET od == overlapping_delta_of(cdp)
                   st == crl_status_of(clock, od, cdp.next_update)
               IN  [@ EXCEPT !.pc = "write_log",
                             !.creation_date = cdp.last_update,
                             !.expiration_date = cdp.next_update,
                             !.overlapping_delta = od,
                             !.current_date = clock,
                             !.crl_status = st,
                             !.log_message =
                                 IF st = 10 THEN NoMsg
                                 ELSE log_message_of(st, loc[p].crl_name, od, cdp.next_update),
                             !.bound = @ \cup
                                 {"creation_date", "expiration_date", "overlapping_delta",
                                  "current_date", "crl_status"}
                                 \cup (IF st = 10 THEN {} ELSE {"log_message"})]]
    /\ UNCHANGED <<clock, crl_arg, cdp, log, prom, events, registry, serialized>>

\* line 218
WriteLog(p) ==
    /\ loc[p].pc = "write_log"
    /\ IF "log_message" \notin loc[p].bound
       THEN /\ loc' = [loc EXCEPT ![p] = Raise(@, "UnboundLocalError")]
            /\ log' = log
       ELSE \E ioerr \in BOOLEAN :
              LET l == Called(loc[p], "write_log")
                  r == write_log(log, full_path(cdp_server, path_type, l.crl_name),
                                 l.log_message, l.crl_status, clock, ioerr)
              IN  /\ log' = r.fs
                  /\ loc' = [loc EXCEPT ![p] =
                               IF r.exc = "none" THEN [l EXCEPT !.pc = "clear_PROM_log"]
                               ELSE Raise(l, r.exc)]
    /\ UNCHANGED <<clock, crl_arg, cdp, prom, events, registry, serialized>>

\* line 219
ClearProm(p) ==
    /\ loc[p].pc = "clear_PROM_log"
    /\ \E ioerr \in BOOLEAN :
          LET l == Called(loc[p], "clear_PROM_log")
              r == clear_PROM_log(prom, ioerr)
          IN  /\ prom' = r.fs
              /\ loc' = [loc EXCEPT ![p] =
                           IF r.exc = "none" THEN [l EXCEPT !.pc = "write_PROM_log"]
                           ELSE Raise(l, r.exc)]
    /\ UNCHANGED <<clock, crl_arg, cdp, log, events, registry, serialized>>

\* lines 220-226: the arguments are evaluated before the call
WriteProm(p) ==
    /\ loc[p].pc = "write_PROM_log"
    /\ IF {"creation_date", "overlapping_delta", "expiration_date"} \subseteq loc[p].bound
       THEN \E ioerr \in BOOLEAN :
              LET l == Called(loc[p], "write_PROM_log")
                  r == write_PROM_log(prom, l.crl_name,
                                      datetime_to_unix(l.creation_date),
                                      datetime_to_unix(l.overlapping_delta),
                                      datetime_to_unix(l.expiration_date),
                                      l.crl_status, ioerr)
              IN  /\ prom' = r.fs
                  /\ loc' = [loc EXCEPT ![p] =
                               IF r.exc = "none" THEN [l EXCEPT !.pc = "generate_windows_events"]
                               ELSE Raise(l, r.exc)]
       ELSE /\ loc' = [loc EXCEPT ![p] = Raise(@, "UnboundLocalError")]
            /\ prom' = prom
    /\ UNCHANGED <<clock, crl_arg, cdp, log, events, registry, serialized>>

\* line 228, generate_windows_events (lines 18-62).  AddSourceToRegistry may
\* raise for a source that is registered; the handler prints an f-string
\* that reads the undefined name YELLOW.
GenerateEvents(p) ==
    /\ loc[p].pc = "generate_windows_events"
    /\ \E add_raises \in (IF registry THEN BOOLEAN ELSE {FALSE}) :
          LET l == Called(loc[p], "generate_windows_events")
          IN  IF add_raises
              THEN /\ loc' = [loc EXCEPT ![p] = Raise(l, "NameError")]
                   /\ UNCHANGED <<events, registry>>
              ELSE /\ registry' = TRUE
                   /\ events' = Append(events, Event(l.log_message, l.crl_status))
                   /\ loc' = [loc EXCEPT ![p] = [l EXCEPT !.pc = "exit"]]
    /\ UNCHANGED <<clock, crl_arg, cdp, log, prom, serialized>>

\* validate_crl returns or raises: the process ends and its locals are gone
Exit(p) ==
    /\ loc[p].pc = "exit"
    /\ loc' = [loc EXCEPT ![p] = [IdleLoc EXCEPT !.pc = "done"]]
    /\ UNCHANGED <<clock, crl_arg, cdp, log, prom, events, registry, serialized>>

Next ==
    \/ Tick
    \/ \E p \in Procs : Start(p)
    \/ \E p \in Procs : Unreachable(p)
    \/ \E p \in Procs : Classify(p)
    \/ \E p \in Procs : WriteLog(p)
    \/ \E p \in Procs : ClearProm(p)
    \/ \E p \in Procs : WriteProm(p)
    \/ \E p \in Procs : GenerateEvents(p)
    \/ \E p \in Procs : Exit(p)

Spec == Init /\ [][Next]_vars

SpecSched == InitSched /\ [][Next]_vars

NextName ==
    \/ Start("A")
    \/ Classify("A")
    \/ WriteLog("A")
    \/ ClearProm("A")
    \/ WriteProm("A")

SpecName == InitName /\ [][NextName]_vars

----------------------------------------------------------------------------
(* Vocabulary of the properties *)

Last(s) == s[Len(s)]

IsPrefix(s, t) == Len(s) <= Len(t) /\ SubSeq(t, 1, Len(s)) = s

\* run p has called f
Ran(p, f) == \E i \in 1 .. Len(loc[p].calls) : loc[p].calls[i] = f

\* run p got 200 and went through the classification
Classified(p) == loc[p].http = 200 /\ "crl_status" \in loc[p].bound

\* run p is past a write_log, a clear_PROM_log, a write_PROM_log that returned
LogReturned(p) ==
    \/ loc[p].pc \in {"clear_PROM_log", "write_PROM_log", "generate_windows_events"}
    \/ Ran(p, "clear_PROM_log")

ClearReturned(p) == loc[p].pc = "write_PROM_log"

PromReturned(p) ==
    \/ loc[p].pc = "generate_windows_events"
    \/ Ran(p, "generate_windows_events")

\* the lines of the metrics file for one gauge
LinesOf(metric) == {i \in 1 .. Len(prom.text) : prom.text[i].metric = metric}

\* the step is a call by p of sink f (one more entry in its calls)
CallStep(p, f) ==
    /\ Len(loc'[p].calls) = Len(loc[p].calls) + 1
    /\ Last(loc'[p].calls) = f

Sinks == {"write_log", "clear_PROM_log", "write_PROM_log", "generate_windows_events"}

\* the severity table of the specification
TableSeverity(status_code) ==
    CASE status_code \in {1, 5} -> "EVENTLOG_INFORMATION_TYPE"
      [] status_code = 2 -> "EVENTLOG_WARNING_TYPE"
      [] status_code \in {3, 4, 6, 10} -> "EVENTLOG_ERROR_TYPE"

EndsWith(s, t) ==
    /\ Len(s) >= Len(t)
    /\ SubSeq(s, Len(s) - Len(t) + 1, Len(s)) = t

\* a name with exactly a trailing .crl removed
StripOnlyTrailing(crl_file) ==
    IF EndsWith(crl_file, DotCrl)
    THEN SubSeq(crl_file, 1, Len(crl_file) - Len(DotCrl))
    ELSE crl_file

Inverted(p) ==
    /\ Classified(p)
    /\ loc[p].expiration_date < loc[p].overlapping_delta
    /\ loc[p].current_date > loc[p].overlapping_delta

----------------------------------------------------------------------------
(* Properties *)

\* C1: after a successful fetch with overlap_date <= expiration_date the
\* status is 1 when now <= overlap_date, 2 when overlap_date < now <=
\* expiration_date and 3 when now > expiration_date, and nothing else.
C1_StatusByDates ==
    \A p \in Procs :
        (Classified(p) /\ loc[p].overlapping_delta <= loc[p].expiration_date)
        => loc[p].crl_status =
              IF loc[p].current_date <= loc[p].overlapping_delta THEN 1
              ELSE IF loc[p].current_date <= loc[p].expiration_date THEN 2
              ELSE 3

\* a run classified on the boundary now = overlap_date < expiration_date
C1_Witness ==
    \E p \in Procs :
        /\ Classified(p)
        /\ loc[p].current_date = loc[p].overlapping_delta
        /\ loc[p].overlapping_delta < loc[p].expiration_date
        /\ loc[p].current_date > 0
        /\ loc[p].crl_status = 1

\* C2: a run whose fetch did not return 200 and that no I/O error of a sink
\* stopped ends with an UNREACHABLE block of status 4 in the log, the
\* crl_status gauge of value 4 in the metrics file and an event of id 4.
C2_UnreachableReported ==
    \A p \in Procs :
        (loc[p].pc = "exit" /\ loc[p].http # 200 /\ loc[p].exc # "OSError")
        => /\ \E i \in 1 .. Len(log.text) :
                 /\ log.text[i].log_content = UnreachableMsg
                 /\ log.text[i].status_code = 4
           /\ \E i \in LinesOf("crl_status") : prom.text[i].value = 4
           /\ \E i \in 1 .. Len(events) : events[i].eventID = 4

\* C3: every run that got past the fetch and the decoding has attempted all
\* the sinks when it ends, whatever a sink raised.
C3_AllSinksAttempted ==
    \A p \in Procs :
        (loc[p].pc = "exit" /\ loc[p].exc # "ValueError")
        => \A f \in Sinks : Ran(p, f)

\* C4: with runs one after the other, once a run has done clear_PROM_log and
\* write_PROM_log the metrics file holds the block of that run and nothing
\* else: one line for each of the four gauges.
C4_OnlyLatestBlock ==
    \A p \in Procs :
        PromReturned(p)
        => /\ prom.file
           /\ prom.text = prom_log_format(loc[p].crl_name,
                                          datetime_to_unix(loc[p].creation_date),
                                          datetime_to_unix(loc[p].overlapping_delta),
                                          datetime_to_unix(loc[p].expiration_date),
                                          loc[p].crl_status)
           /\ \A g \in GaugeNames : Cardinality(LinesOf(g)) = 1

\* the second of two full runs has written its block, and the first run, whose
\* event is in the event log, had another status
C4_Witness ==
    \E p \in Procs :
        /\ loc[p].pc = "generate_windows_events"
        /\ Len(events) = 1
        /\ events[1].eventID # loc[p].crl_status
        /\ \E i \in LinesOf("crl_status") : prom.text[i].value = loc[p].crl_status

C6_AppendOnly ==
    [][ /\ IsPrefix(log.text, log'.text)
        /\ log.file => log'.file
        /\ \A p \in Procs :
              (CallStep(p, "write_log") /\ loc'[p].exc = "none")
              => /\ log'.file
                 /\ Len(log'.text) = Len(log.text) + 1
                 /\ Last(log'.text).http_path =
                       full_path(cdp_server, path_type, loc[p].crl_name)
                 /\ Last(log'.text).time = clock ]_vars

\* the log directory was made by the first append and the log holds the
\* blocks of two runs
C6_Witness ==
    /\ log.made
    /\ Len(log.text) >= 2
    /\ \A p \in Procs : loc[p].pc = "done"

\* C7: a call of generate_windows_events has added one event whose id is the
\* status code and whose severity follows the table, also when the source
\* was registered before.
C7_OneEventPerCall ==
    \A p \in Procs :
        Ran(p, "generate_windows_events")
        => /\ events # <<>>
           /\ Last(events).eventID = loc[p].crl_status
           /\ Last(events).eventType = TableSeverity(loc[p].crl_status)

\* C8: when clear_PROM_log has returned the metrics file exists and is empty.
C8_ClearLeavesEmptyFile ==
    \A p \in Procs : ClearReturned(p) => prom.file /\ prom.text = <<>>

\* C9: the label of the gauges is the file name without a trailing .crl, and
\* the file name itself when it does not end in .crl.
C9_OnlyTrailingStripped ==
    \A p \in Procs :
        PromReturned(p)
        => \A g \in GaugeNames : \A i \in LinesOf(g) :
              prom.text[i].crl_name = StripOnlyTrailing(loc[p].crl_name)

\* C10: when the job runner keeps the runs apart the metrics file never
\* holds the gauges of two runs.
C10_SerializedNeverMixes ==
    serialized => \A g \in GaugeNames : Cardinality(LinesOf(g)) <= 1

\* two overlapping runs have both cleared and then both written: the metrics
\* file holds both blocks
C10_Witness ==
    /\ ~serialized
    /\ \A p \in Procs : loc[p].pc = "generate_windows_events"
    /\ \A g \in GaugeNames : Cardinality(LinesOf(g)) = 2

====
